---- MODULE Spec2Model ----
(***************************************************************************)
(* A model of the Strudel Agent backend: the ConnectionManager (connection *)
(* registry, fan-out, tool-request correlation: backend/src/core/          *)
(* manager.py), the websocket endpoint that drives it (backend/server.py), *)
(* the SessionManager (backend/src/core/session_manager.py) and the        *)
(* message-history filter of the CLI agent (agent.py).                     *)
(*                                                                         *)
(* The server runs on one asyncio event loop: a handler runs without       *)
(* interruption from one suspension point (an await that really waits:     *)
(* websocket receive/send, database I/O, the agent run, wait_for) to the   *)
(* next.  Every action below is one such uninterrupted stretch.            *)
(***************************************************************************)
EXTENDS Integers, Sequences, FiniteSets, TLC

(***************************************************************************)
(* Bounds of the model.                                                    *)
(***************************************************************************)
MaxSock == 2
MaxReq == 2
MaxTask == 2
MaxLen == 4
MaxLimit == 3
MaxCall == 2

SessionIds == {"s1", "s2"}
ConnTypes == {"pwa", "mcp"}
Sockets == 1..MaxSock
Reqs == 1..MaxReq
Tasks == 1..MaxTask
CallIds == 1..MaxCall
Uids == 1..MaxSock
Data == {"X", "Y"}
Errors == {"E"}

\* A SessionState object is named by the call that built it: restore_session in
\* the websocket_endpoint task of websocket w (each task restores at most once),
\* or create_session of session s (w = 0).
NoHandle == [w |-> 0, s |-> "none"]
Handles ==
    {[w |-> w, s |-> s] : w \in Sockets, s \in SessionIds}
        \cup {[w |-> 0, s |-> s] : s \in SessionIds}

VARIABLES
    active_connections,     \* session_id -> (connection_id -> websocket)
    session_contexts,       \* session_id -> SessionContext
    pending_tool_requests,  \* session_id -> set of request ids (each names its Future)
    sock,                   \* websocket_endpoint task of every websocket
    req,                    \* send_tool_request call (its Future and its caller)
    sessions,               \* SessionManager.sessions: session_id -> SessionState handle
    db,                     \* durable session row of every session id
    blob,                   \* conversation_history.pkl of every session id
    hist,                   \* SessionState.conversation_history of every handle
    index,                  \* rows of the messages table of every session id
    task,                   \* handle_user_message task of every user message
    dl,                     \* delete_session endpoint call of every session id
    fmh_in,                 \* arguments of a filtered_message_history call
    fmh_out,                \* what the call returned
    emitted                 \* what the last step sent with send_message or logged

srvVars == <<active_connections, session_contexts, pending_tool_requests, sock, req,
             sessions, db, blob, hist, index, task, dl>>

vars == <<srvVars, fmh_in, fmh_out, emitted>>

mgrVars == <<active_connections, session_contexts, pending_tool_requests>>

(***************************************************************************)
(* Python dictionaries: functions whose DOMAIN is the set of keys.         *)
(***************************************************************************)
EmptyMap == [k \in {} |-> 0]

Put(f, k, v) == [x \in (DOMAIN f) \cup {k} |-> IF x = k THEN v ELSE f[x]]

Pop(f, k) == [x \in (DOMAIN f) \ {k} |-> f[x]]

(***************************************************************************)
(* ConnectionManager.connect: registers the websocket under a connection   *)
(* id "<type>-<8 hex digits of a uuid4>" and gets or creates the context.  *)
(* The 8 hex digits are a random draw: nothing keeps them apart from the   *)
(* ids already registered.                                                 *)
(***************************************************************************)
ConnId(ctype, uid) == <<ctype, uid>>

ConnectConns(ac, w, s, cid) ==
    Put(ac, s, Put(IF s \in DOMAIN ac THEN ac[s] ELSE EmptyMap, cid, w))

\* no context is made
NoContext(sc, s) == sc

ConnectContexts(sc, s) ==
    IF s \in DOMAIN sc THEN sc ELSE Put(sc, s, [session_id |-> s])

(***************************************************************************)
(* ConnectionManager.disconnect(session_id, connection_id): the new        *)
(* (active_connections, session_contexts, pending_tool_requests).          *)
(* cid = "None" is the call without a connection id.                       *)
(***************************************************************************)
\* the maps are emptied, whatever the session
DropEverything(ac, sc, pt, s) == [ac |-> EmptyMap, sc |-> EmptyMap, pt |-> EmptyMap]

DisconnectCleanup(ac, sc, pt, s) ==
    [ac |-> Pop(ac, s), sc |-> Pop(sc, s), pt |-> Pop(pt, s)]

\* whatever the connection id, the session is dropped
DropSession(ac, sc, pt, s, cid) ==
    IF s \notin DOMAIN ac THEN [ac |-> ac, sc |-> sc, pt |-> pt]
    ELSE DisconnectCleanup(ac, sc, pt, s)

Disconnect(ac, sc, pt, s, cid) ==
    IF s \notin DOMAIN ac
    THEN [ac |-> ac, sc |-> sc, pt |-> pt]
    ELSE IF cid # "None"
         THEN LET conns == Pop(ac[s], cid)
              IN  IF DOMAIN conns = {}
                  THEN DisconnectCleanup(ac, sc, pt, s)
                  ELSE [ac |-> [ac EXCEPT ![s] = conns], sc |-> sc, pt |-> pt]
         ELSE DisconnectCleanup(ac, sc, pt, s)

\* every connection id of the session, whatever its type
AllConnections(ac, s, target) == IF s \in DOMAIN ac THEN DOMAIN ac[s] ELSE {}

(***************************************************************************)
(* ConnectionManager.send_message: the connections a message goes to.      *)
(***************************************************************************)
Targets(ac, s, target) ==
    IF s \notin DOMAIN ac
    THEN {}
    ELSE IF target = "all"
         THEN DOMAIN ac[s]
         ELSE {cid \in DOMAIN ac[s] : cid[1] = target}

\* true for every session that has a connection
SomeConnection(ac, s, target) == s \in DOMAIN ac

SendMessage(ac, s, target) == Targets(ac, s, target) # {}

\* nothing sent, nothing logged
NoEmit == [ev |-> "none", sid |-> "none", target |-> "none", to |-> {}, failed |-> {},
           ret |-> FALSE, id |-> 0]

\* send_message(s, {type: ev, ...}, target) over the connections ac: ws.send_json
\* raises for the connection ids in fail, which is caught; to and failed are the
\* websockets that were and were not given the payload, ret the value returned,
\* id the request_id the payload carries (0: the payload has none)
Sent(ac, ev, s, target, fail) ==
    [ev |-> ev, sid |-> s, target |-> target,
     to |-> {ac[s][c] : c \in Targets(ac, s, target) \ fail},
     failed |-> {ac[s][c] : c \in fail},
     ret |-> SendMessage(ac, s, target),
     id |-> 0]

Emit(ac, ev, s, target) ==
    \E fail \in SUBSET Targets(ac, s, target) : emitted' = Sent(ac, ev, s, target, fail)

(***************************************************************************)
(* The initial state: nothing connected, nothing pending, no session       *)
(* resident, no durable record.                                            *)
(***************************************************************************)
NoFile == [exists |-> FALSE, data |-> <<>>]

IdleSock == [pc |-> "idle", sid |-> "s1", ctype |-> "pwa", uid |-> 1, h |-> NoHandle,
             err |-> "none"]

ClosedSock == [IdleSock EXCEPT !.pc = "closed"]

NoCall == [messages |-> <<>>, limit |-> 0, tools |-> TRUE]

NoResult == [done |-> FALSE, pre |-> <<>>, win |-> <<>>]

IdleTask == [pc |-> "idle", sid |-> "s1", h |-> NoHandle, msgs |-> <<>>, next |-> 0,
             typing |-> FALSE,
             res |-> "none"]

IdleReq == [pc |-> "idle", sid |-> "s1", fut |-> "none", val |-> "none",
            tmo |-> "no", out |-> "none", outval |-> "none"]

Init ==
    /\ active_connections = EmptyMap
    /\ session_contexts = EmptyMap
    /\ pending_tool_requests = EmptyMap
    /\ sock = [w \in Sockets |-> IdleSock]
    /\ req = [r \in Reqs |-> IdleReq]
    /\ sessions = EmptyMap
    /\ db = [s \in SessionIds |-> "fresh"]
    /\ blob = [s \in SessionIds |-> NoFile]
    /\ hist = [h \in Handles |-> <<>>]
    /\ index = [s \in SessionIds |-> <<>>]
    /\ task = [t \in Tasks |-> IdleTask]
    /\ dl = [s \in SessionIds |-> "idle"]
    /\ fmh_in = NoCall
    /\ fmh_out = NoResult
    /\ emitted = NoEmit

\* every id has a row
AnyRow(s) == TRUE

RowExists(s) == db[s] \in {"active", "terminated"}

\* load_conversation_history_from_file: the pickled list, [] without a file
LoadHistory(s) == IF blob[s].exists THEN blob[s].data ELSE <<>>

(***************************************************************************)
(* websocket_endpoint                                                      *)
(***************************************************************************)
\* The uuid digits of a new connection id: digits no connection of that session
\* and type carries (all such draws are alike, the least stands for them), or the
\* digits of one that does.
HeldUids(s, t) ==
    {cid[2] : cid \in Targets(active_connections, s, t)}
        \cup {sock[w].uid : w \in {x \in Sockets : /\ sock[x].pc \notin {"idle", "closed"}
                                                   /\ sock[x].sid = s
                                                   /\ sock[x].ctype = t}}

UidDraws(s, t) ==
    HeldUids(s, t) \cup
        {u \in Uids : /\ u \notin HeldUids(s, t)
                      /\ \A v \in Uids \ HeldUids(s, t) : u <= v}

\* session ids are interchangeable: the first one a websocket or a tool request
\* names is called s1
InOrder(s) ==
    ((\A x \in Sockets : sock[x].pc = "idle") /\ (\A r \in Reqs : req[r].pc = "idle"))
        => s = "s1"

\* handshake received; manager.connect; session_manager.get_session.  A resident
\* session is used as it is: send_handshake_ack, then the message loop.
Handshake(w, s, t, u) ==
    /\ sock[w].pc = "idle"
    /\ \A x \in Sockets : x < w => sock[x].pc # "idle"   \* websockets arrive in order
    /\ InOrder(s)
    /\ u \in UidDraws(s, t)
    /\ active_connections' = ConnectConns(active_connections, w, s, ConnId(t, u))
    /\ session_contexts' = ConnectContexts(session_contexts, s)
    /\ sock' = [sock EXCEPT ![w] =
            [pc |-> IF s \in DOMAIN sessions THEN "loop" ELSE "restoring",
             sid |-> s, ctype |-> t, uid |-> u,
             h |-> IF s \in DOMAIN sessions THEN sessions[s] ELSE NoHandle,
             err |-> "none"]]
    /\ UNCHANGED <<pending_tool_requests, req, sessions, db, blob, hist, index, task, dl, fmh_in, fmh_out>>
    /\ IF s \in DOMAIN sessions
       THEN Emit(active_connections', "handshake_ack", s, t)
       ELSE emitted' = NoEmit

\* a handler that ends without calling manager.disconnect
EndpointLeaves(w) ==
    /\ sock' = [sock EXCEPT ![w] = ClosedSock]
    /\ UNCHANGED mgrVars

\* the handler ends with an exception: except ...: manager.disconnect(session_id, connection_id)
EndpointDisconnect(w) ==
    LET d == Disconnect(active_connections, session_contexts, pending_tool_requests,
                        sock[w].sid, ConnId(sock[w].ctype, sock[w].uid))
    IN  /\ active_connections' = d.ac
        /\ session_contexts' = d.sc
        /\ pending_tool_requests' = d.pt
        /\ sock' = [sock EXCEPT ![w] = ClosedSock]

\* exception e leaves handle_websocket_messages: a pwa connection first leaves
\* "async with session_state.agent.run_mcp_servers()", which waits
LeaveLoop(w, e) ==
    IF sock[w].ctype = "pwa"
    THEN /\ sock' = [sock EXCEPT ![w].pc = "unwinding", ![w].err = e]
         /\ UNCHANGED mgrVars
    ELSE EndpointDisconnect(w)

RestoredHandle(w) == [w |-> w, s |-> sock[w].sid]

\* a restore that seeds the history file as create_session does
RestoreSeeding(w) ==
    /\ sock[w].pc = "restoring"
    /\ db[sock[w].sid] \in {"active", "terminated"}
    /\ sessions' = Put(sessions, sock[w].sid, RestoredHandle(w))
    /\ hist' = [hist EXCEPT ![RestoredHandle(w)] = <<>>]
    /\ blob' = [blob EXCEPT ![sock[w].sid] = [exists |-> TRUE, data |-> <<>>]]
    /\ sock' = [sock EXCEPT ![w].pc = "loop", ![w].h = RestoredHandle(w)]
    /\ UNCHANGED <<mgrVars, req, db, index, task, dl, fmh_in, fmh_out>>
    /\ Emit(active_connections, "handshake_ack", sock[w].sid, sock[w].ctype)

\* restore_session once the database has answered db_get_session: not found
\* raises; otherwise a new SessionState is built, loads the history file and is
\* put into the map; send_handshake_ack, then the message loop
Restore(w) ==
    /\ sock[w].pc = "restoring"
    /\ IF ~RowExists(sock[w].sid)
       THEN /\ EndpointDisconnect(w)
            /\ UNCHANGED <<sessions, hist>>
            /\ emitted' = NoEmit
       ELSE /\ sessions' = Put(sessions, sock[w].sid, RestoredHandle(w))
            /\ hist' = [hist EXCEPT ![RestoredHandle(w)] = LoadHistory(sock[w].sid)]
            /\ sock' = [sock EXCEPT ![w].pc = "loop", ![w].h = RestoredHandle(w)]
            /\ UNCHANGED mgrVars
            /\ Emit(active_connections, "handshake_ack", sock[w].sid, sock[w].ctype)
    /\ UNCHANGED <<req, db, blob, index, task, dl, fmh_in, fmh_out>>

\* receive_json raises WebSocketDisconnect: the client went away
WsClose(w) ==
    /\ sock[w].pc = "loop"
    /\ LeaveLoop(w, "WebSocketDisconnect")
    /\ UNCHANGED <<req, sessions, db, blob, hist, index, task, dl, fmh_in, fmh_out>>
    /\ emitted' = NoEmit

\* the except clause of websocket_endpoint runs for a pwa connection
Unwind(w) ==
    /\ sock[w].pc = "unwinding"
    /\ EndpointDisconnect(w)
    /\ UNCHANGED <<req, sessions, db, blob, hist, index, task, dl, fmh_in, fmh_out>>
    /\ emitted' = NoEmit

\* manager.disconnect(session_id) without a connection id
DisconnectAll(s) ==
    LET d == Disconnect(active_connections, session_contexts, pending_tool_requests,
                        s, "None")
    IN  /\ active_connections' = d.ac
        /\ session_contexts' = d.sc
        /\ pending_tool_requests' = d.pt
        /\ UNCHANGED <<sock, req, sessions, db, blob, hist, index, task, dl, fmh_in, fmh_out>>
        /\ emitted' = NoEmit

\* manager.send_message(session_id, message, target) called on its own (the
\* clip_updated, song_updated and playlist_updated events of the tools)
SendMessageCall(s, target) ==
    /\ Emit(active_connections, "event", s, target)
    /\ UNCHANGED <<srvVars, fmh_in, fmh_out>>

(***************************************************************************)
(* SessionManager.create_session and the DELETE /api/sessions endpoint     *)
(***************************************************************************)
\* create_session: a row with a new id, _initialize_memory seeds an empty history
\* file, a new SessionState goes into the map.  Nobody knows the id before the
\* call returns, so its steps are taken at once.
CreateSession(s) ==
    /\ db[s] = "fresh"
    /\ dl[s] = "idle"
    /\ \A w \in Sockets : sock[w].pc \in {"idle", "closed"} \/ sock[w].sid # s
    /\ \A r \in Reqs : req[r].pc = "idle" \/ req[r].sid # s
    /\ db' = [db EXCEPT ![s] = "active"]
    /\ blob' = [blob EXCEPT ![s] = [exists |-> TRUE, data |-> <<>>]]
    /\ sessions' = Put(sessions, s, [w |-> 0, s |-> s])
    /\ hist' = [hist EXCEPT ![[w |-> 0, s |-> s]] = <<>>]
    /\ UNCHANGED <<mgrVars, sock, req, index, task, dl, fmh_in, fmh_out>>
    /\ emitted' = NoEmit

\* terminate_session, first half: the session leaves the in-memory map
TerminateEvict(s) ==
    /\ dl[s] = "idle"
    /\ sessions' = Pop(sessions, s)
    /\ dl' = [dl EXCEPT ![s] = "evicted"]
    /\ UNCHANGED <<mgrVars, sock, req, db, blob, hist, index, task, fmh_in, fmh_out>>
    /\ emitted' = NoEmit

\* terminate_session, second half: update_session_status(db, id, 'terminated')
TerminateFlag(s) ==
    /\ dl[s] = "evicted"
    /\ db' = [db EXCEPT ![s] = IF RowExists(s) THEN "terminated" ELSE @]
    /\ dl' = [dl EXCEPT ![s] = "terminated"]
    /\ UNCHANGED <<mgrVars, sock, req, sessions, blob, hist, index, task, fmh_in, fmh_out>>
    /\ emitted' = NoEmit

\* delete_session after terminate_session returned: db_delete_session removes the row
DeleteRow(s) ==
    /\ dl[s] = "terminated"
    /\ db' = [db EXCEPT ![s] = IF RowExists(s) THEN "deleted" ELSE @]
    /\ dl' = [dl EXCEPT ![s] = "idle"]
    /\ UNCHANGED <<mgrVars, sock, req, sessions, blob, hist, index, task, fmh_in, fmh_out>>
    /\ emitted' = NoEmit

(***************************************************************************)
(* ConnectionManager.send_tool_request and handle_tool_response            *)
(***************************************************************************)
\* no entry is made
NotRegistered(pt, s, r) == pt

\* the new pending map once request r of session s is registered
RegisterPending(pt, s, r) ==
    Put(pt, s, (IF s \in DOMAIN pt THEN pt[s] ELSE {}) \cup {r})

\* every entry of the session is removed
CleanupAllPending(pt, s, r) == Pop(pt, s)

\* no entry is removed
KeepPending(pt, s, r) == pt

\* the finally clause of send_tool_request
CleanupPending(pt, s, r) ==
    IF s \in DOMAIN pt THEN [pt EXCEPT ![s] = @ \ {r}] ELSE pt

\* request_id r is pending in some session, the sender's or not
LooksUpAnywhere(pt, s, r) == \E x \in DOMAIN pt : r \in pt[x]

\* handle_tool_response finds the Future of request_id r in session s
LooksUp(pt, s, r) == s \in DOMAIN pt /\ r \in pt[s]

\* the request_id of another request
OtherKey(r) == (r % MaxReq) + 1

\* the request_id that send_tool_request puts into the tool_request message: the
\* one it registered the Future under
RequestKey(r) == r

\* send_tool_request up to wait_for: a new request id and Future, registered, and
\* the tool_request message sent to the pwa connections of the session
RequestStart(r, s) ==
    /\ req[r].pc = "idle"
    /\ \A x \in Reqs : x < r => req[x].pc # "idle"   \* request ids are issued in order
    /\ InOrder(s)
    /\ pending_tool_requests' = RegisterPending(pending_tool_requests, s, r)
    /\ req' = [req EXCEPT ![r] = [IdleReq EXCEPT !.pc = "waiting", !.sid = s,
                                                   !.fut = "pending"]]
    /\ UNCHANGED <<active_connections, session_contexts, sock, sessions, db, blob,
                   hist, index, task, dl, fmh_in, fmh_out>>
    /\ \E fail \in SUBSET Targets(active_connections, s, "pwa") :
          emitted' = [Sent(active_connections, "tool_request", s, "pwa", fail)
                          EXCEPT !.id = RequestKey(r)]

\* handle_websocket_messages receives a tool_response naming request_id r
RecvToolResponse(w, r, ok, v) ==
    /\ sock[w].pc = "loop"
    /\ v \in (IF ok THEN Data ELSE Errors)
    /\ IF LooksUp(pending_tool_requests, sock[w].sid, r)
       THEN IF req[r].fut = "pending"
            THEN \* future.set_result / future.set_exception
                 /\ req' = [req EXCEPT ![r].fut = IF ok THEN "result" ELSE "exception",
                                        ![r].val = v]
                 /\ UNCHANGED <<mgrVars, sock>>
                 /\ emitted' = NoEmit
            ELSE \* the Future is done: set_result raises InvalidStateError, which
                 \* leaves handle_tool_response and the message loop
                 /\ LeaveLoop(w, "InvalidStateError")
                 /\ UNCHANGED req
                 /\ emitted' = NoEmit
       ELSE \* logger.warning("Received tool response for unknown request")
            /\ UNCHANGED <<mgrVars, sock, req>>
            /\ emitted' = [NoEmit EXCEPT !.ev = "unknown_request", !.sid = sock[w].sid]
    /\ UNCHANGED <<sessions, db, blob, hist, index, task, dl, fmh_in, fmh_out>>

\* the deadline of wait_for passes.  "cancel": asyncio.timeout cancels the waiting
\* task, which cancels the Future it waits for at once, or marks the task when the
\* Future is already done (Python 3.12).  "release": the timer only wakes wait_for
\* (Python 3.11 and before).
Timeout(r, mode) ==
    /\ req[r].pc = "waiting"
    /\ req[r].tmo = "no"
    /\ req' = [req EXCEPT ![r].tmo = mode,
                           ![r].fut = IF mode = "cancel" /\ @ = "pending"
                                      THEN "cancelled" ELSE @]
    /\ UNCHANGED <<mgrVars, sock, sessions, db, blob, hist, index, task, dl, fmh_in, fmh_out>>
    /\ emitted' = NoEmit

\* every caller is given a value
AlwaysValue(q) == "value"

\* what wait_for gives the caller of send_tool_request
Outcome(q) ==
    IF q.tmo = "cancel" \/ q.fut = "cancelled" THEN "timeout"
    ELSE IF q.fut = "result" THEN "value"
    ELSE "tool_failed"

\* the caller of send_tool_request runs again
Resume(r) ==
    /\ req[r].pc = "waiting"
    /\ req[r].fut # "pending" \/ req[r].tmo # "no"
    /\ IF req[r].fut = "pending"
       THEN \* woken by the timer: wait_for cancels the Future and waits once more
            /\ req' = [req EXCEPT ![r].fut = "cancelled"]
            /\ UNCHANGED pending_tool_requests
       ELSE /\ req' = [req EXCEPT ![r] =
                       [IdleReq EXCEPT !.pc = "done", !.sid = req[r].sid,
                                       !.out = Outcome(req[r]),
                                       !.outval = IF Outcome(req[r]) = "timeout"
                                                  THEN "none" ELSE req[r].val]]
            /\ pending_tool_requests' =
                   CleanupPending(pending_tool_requests, req[r].sid, r)
    /\ UNCHANGED <<active_connections, session_contexts, sock, sessions, db, blob,
                   hist, index, task, dl, fmh_in, fmh_out>>
    /\ emitted' = NoEmit

(***************************************************************************)
(* handle_user_message and SessionState.add_messages                       *)
(***************************************************************************)
\* response.new_messages() of the agent run of task t: the user request and the
\* final response, with a tool call and its return between them when the run
\* called a tool
NewMessages(t, tool) ==
    IF tool
    THEN <<[k |-> "user", t |-> t], [k |-> "call", t |-> t],
           [k |-> "return", t |-> t], [k |-> "assistant", t |-> t]>>
    ELSE <<[k |-> "user", t |-> t], [k |-> "assistant", t |-> t]>>

\* _extract_display_messages_from_objects: every user prompt, and of the model
\* responses only the last one
DisplayMessages(msgs) ==
    LET resp == {i \in 1..Len(msgs) : msgs[i].k \in {"call", "assistant"}}
        last == IF resp = {} THEN 0 ELSE CHOOSE i \in resp : \A j \in resp : j <= i
        Shown(i) == msgs[i].k = "user" \/ (i = last /\ msgs[i].k = "assistant")
        RECURSIVE From(_)
        From(i) == IF i > Len(msgs) THEN <<>>
                   ELSE (IF Shown(i) THEN <<msgs[i]>> ELSE <<>>) \o From(i + 1)
    IN  From(1)

\* save_display_messages, the query: the greatest message_index of the session
\* plus one, 0 for a session without rows
NextIndex(rows) ==
    IF rows = <<>> THEN 0
    ELSE LET top == CHOOSE i \in 1..Len(rows) :
                        \A j \in 1..Len(rows) : rows[j].idx <= rows[i].idx
         IN  rows[top].idx + 1

\* save_display_messages, the inserts: message_index = next_index + position
IndexRows(display, next) ==
    [i \in 1..Len(display) |-> [idx |-> next + i - 1, k |-> display[i].k,
                                 t |-> display[i].t]]

\* handle_websocket_messages receives a user_message: asyncio.create_task of
\* handle_user_message(session_id, data, session_state), not awaited
\* (typing: is_typing=true has been sent to some websocket and is_typing=false has
\* not followed)
RecvUserMessage(w, t) ==
    /\ sock[w].pc = "loop"
    /\ task[t].pc = "idle"
    /\ \A x \in Tasks : x < t => task[x].pc # "idle"
    /\ Emit(active_connections, "typing_indicator", sock[w].sid, "pwa")
    /\ task' = [task EXCEPT ![t] = [IdleTask EXCEPT !.pc = "running",
                                                      !.typing = (emitted'.to # {}),
                                                      !.sid = sock[w].sid,
                                                      !.h = sock[w].h]]
    /\ UNCHANGED <<mgrVars, sock, req, sessions, db, blob, hist, index, dl, fmh_in, fmh_out>>

\* what is left of the typing indicator when the except clause has run: it sends
\* the error text and nothing else
TypingAfterError(t) == task[t].typing

\* nothing is sent
NoReply(t) == emitted' = NoEmit

\* the except clause of handle_user_message: an agent_response whose content is
\* "Error: <text of the exception>" goes to the pwa connections (ev agent_error)
ErrorReply(t) == Emit(active_connections, "agent_error", task[t].sid, "pwa")

\* session_state.agent.run returns (the response is then sent) or raises (the
\* except clause sends the error text and the task ends)
AgentReturn(t, ok, tool) ==
    /\ task[t].pc = "running"
    /\ task' = [task EXCEPT ![t] =
            IF ok THEN [@ EXCEPT !.pc = "responding", !.msgs = NewMessages(t, tool)]
            ELSE [IdleTask EXCEPT !.pc = "done", !.sid = task[t].sid, !.res = "error",
                                  !.typing = TypingAfterError(t)]]
    /\ UNCHANGED <<mgrVars, sock, req, sessions, db, blob, hist, index, dl, fmh_in, fmh_out>>
    /\ IF ok THEN Emit(active_connections, "agent_response", task[t].sid, "pwa")
       ELSE ErrorReply(t)

\* the agent_response is out: typing_indicator with is_typing false is sent, then
\* add_messages is called
StopTyping(t) ==
    /\ task[t].pc = "responding"
    /\ task' = [task EXCEPT ![t].pc = "saving", ![t].typing = FALSE]
    /\ UNCHANGED <<mgrVars, sock, req, sessions, db, blob, hist, index, dl, fmh_in, fmh_out>>
    /\ Emit(active_connections, "typing_off", task[t].sid, "pwa")

\* add_messages up to the database: conversation_history.extend, then the whole
\* history pickled into the history file
AppendStart(t) ==
    /\ task[t].pc = "saving"
    /\ hist' = [hist EXCEPT ![task[t].h] = @ \o task[t].msgs]
    /\ blob' = [blob EXCEPT ![task[t].sid] =
                    [exists |-> TRUE, data |-> hist[task[t].h] \o task[t].msgs]]
    /\ task' = [task EXCEPT ![t].pc = "querying"]
    /\ UNCHANGED <<mgrVars, sock, req, sessions, db, index, dl, fmh_in, fmh_out>>
    /\ emitted' = NoEmit

\* save_display_messages: the query for the last message_index answers
IndexQuery(t) ==
    /\ task[t].pc = "querying"
    /\ task' = [task EXCEPT ![t].pc = "inserting",
                             ![t].next = NextIndex(index[task[t].sid])]
    /\ UNCHANGED <<mgrVars, sock, req, sessions, db, blob, hist, index, dl, fmh_in, fmh_out>>
    /\ emitted' = NoEmit

\* save_display_messages: the rows are added and committed
IndexInsert(t) ==
    /\ task[t].pc = "inserting"
    /\ index' = [index EXCEPT ![task[t].sid] =
                     @ \o IndexRows(DisplayMessages(task[t].msgs), task[t].next)]
    /\ task' = [task EXCEPT ![t].pc = "activity"]
    /\ UNCHANGED <<mgrVars, sock, req, sessions, db, blob, hist, dl, fmh_in, fmh_out>>
    /\ emitted' = NoEmit

\* update_session_activity done: add_messages returns, the task ends
AppendFinish(t) ==
    /\ task[t].pc = "activity"
    /\ task' = [task EXCEPT ![t] =
            [IdleTask EXCEPT !.pc = "done", !.sid = task[t].sid, !.res = "ok"]]
    /\ UNCHANGED <<mgrVars, sock, req, sessions, db, blob, hist, index, dl, fmh_in, fmh_out>>
    /\ emitted' = NoEmit

\* conversation_history.pkl after a write that did not finish: open('wb') has
\* emptied the file, which load_conversation_history_from_file reads as []
\* (pickle.load raises, the except clause sets the history to [])
TornFile == [exists |-> TRUE, data |-> <<>>]

\* add_messages raises: save_conversation_history_to_file after the history was
\* extended (the file is left as it was or torn), or one of the database calls;
\* the except clause of handle_user_message sends the error text, the task ends
AppendFail(t, torn) ==
    /\ task[t].pc \in {"saving", "querying", "inserting", "activity"}
    /\ IF task[t].pc = "saving"
       THEN /\ hist' = [hist EXCEPT ![task[t].h] = @ \o task[t].msgs]
            /\ blob' = IF torn THEN [blob EXCEPT ![task[t].sid] = TornFile] ELSE blob
       ELSE /\ ~torn
            /\ UNCHANGED <<hist, blob>>
    /\ task' = [task EXCEPT ![t] =
            [IdleTask EXCEPT !.pc = "done", !.sid = task[t].sid, !.res = "error"]]
    /\ UNCHANGED <<mgrVars, sock, req, sessions, db, index, dl, fmh_in, fmh_out>>
    /\ ErrorReply(t)

\* the server process dies and is started again: every connection, task and
\* caller is gone, the manager and the session map are empty, the database and
\* the history files are what they were; torn names the sessions whose history
\* file a task was writing at that moment
Writers(s) == {t \in Tasks : task[t].pc = "saving" /\ task[t].sid = s}

Crash(torn) ==
    /\ \E w \in Sockets : sock[w].pc \notin {"idle", "closed"}
    /\ \A s \in torn : Writers(s) # {}
    /\ active_connections' = EmptyMap
    /\ session_contexts' = EmptyMap
    /\ pending_tool_requests' = EmptyMap
    /\ sessions' = EmptyMap
    /\ hist' = [h \in Handles |-> <<>>]
    /\ sock' = [w \in Sockets |-> IF sock[w].pc = "idle" THEN IdleSock ELSE ClosedSock]
    /\ req' = [r \in Reqs |-> IF req[r].pc = "idle" THEN IdleReq
                               ELSE [IdleReq EXCEPT !.pc = "done", !.sid = req[r].sid,
                                                    !.out = "crashed"]]
    /\ task' = [t \in Tasks |-> IF task[t].pc = "idle" THEN IdleTask
                                ELSE [IdleTask EXCEPT !.pc = "done", !.sid = task[t].sid,
                                                      !.res = "crashed"]]
    /\ dl' = [s \in SessionIds |-> "idle"]
    /\ blob' = [s \in SessionIds |-> IF s \in torn THEN TornFile ELSE blob[s]]
    /\ UNCHANGED <<db, index, fmh_in, fmh_out>>
    /\ emitted' = NoEmit

\* task t is inside add_messages
InAppend(t) == task[t].pc \in {"querying", "inserting", "activity"}

(***************************************************************************)
(* Specifications.  Spec is the whole server.  SpecConn is the connection  *)
(* registry and the correlator of a server started over durable sessions   *)
(* of an earlier run, with no session created or deleted meanwhile.        *)
(***************************************************************************)
NextEndpoint ==
    \/ \E w \in Sockets, s \in SessionIds, t \in ConnTypes, u \in Uids :
          Handshake(w, s, t, u)
    \/ \E w \in Sockets : Restore(w)
    \/ \E w \in Sockets : WsClose(w)
    \/ \E w \in Sockets : Unwind(w)

NextLifecycle ==
    \/ \E s \in SessionIds : CreateSession(s)
    \/ \E s \in SessionIds : TerminateEvict(s)
    \/ \E s \in SessionIds : TerminateFlag(s)
    \/ \E s \in SessionIds : DeleteRow(s)

NextTool ==
    \/ \E r \in Reqs, s \in SessionIds : RequestStart(r, s)
    \/ \E w \in Sockets, r \in Reqs, ok \in BOOLEAN, v \in {"X"} \cup Errors :
          RecvToolResponse(w, r, ok, v)
    \/ \E r \in Reqs, mode \in {"cancel", "release"} : Timeout(r, mode)
    \/ \E r \in Reqs : Resume(r)

NextConn ==
    \/ NextEndpoint
    \/ NextTool
    \/ \E s \in SessionIds : DisconnectAll(s)

InitConn ==
    /\ active_connections = EmptyMap
    /\ session_contexts = EmptyMap
    /\ pending_tool_requests = EmptyMap
    /\ sock = [w \in Sockets |-> IdleSock]
    /\ req = [r \in Reqs |-> IdleReq]
    /\ sessions = EmptyMap
    /\ db = [s \in SessionIds |-> "active"]
    /\ blob = [s \in SessionIds |-> [exists |-> TRUE, data |-> <<>>]]
    /\ hist = [h \in Handles |-> <<>>]
    /\ index = [s \in SessionIds |-> <<>>]
    /\ task = [t \in Tasks |-> IdleTask]
    /\ dl = [s \in SessionIds |-> "idle"]
    /\ fmh_in = NoCall
    /\ fmh_out = NoResult
    /\ emitted = NoEmit

SpecConn == InitConn /\ [][NextConn]_vars

\* user messages of connected clients over durable sessions of an earlier run
NextAppend ==
    \/ \E w \in Sockets, t \in Tasks : RecvUserMessage(w, t)
    \/ \E t \in Tasks, ok \in BOOLEAN, tool \in BOOLEAN : AgentReturn(t, ok, tool)
    \/ \E t \in Tasks : StopTyping(t)
    \/ \E t \in Tasks : AppendStart(t)
    \/ \E t \in Tasks : IndexQuery(t)
    \/ \E t \in Tasks : IndexInsert(t)
    \/ \E t \in Tasks : AppendFinish(t)

SpecAppend == InitConn /\ [][NextEndpoint \/ NextAppend]_vars

\* session termination against outstanding tool requests (no connection is needed
\* to issue a request)
NextTerm ==
    \/ NextLifecycle
    \/ \E r \in Reqs, s \in SessionIds : RequestStart(r, s)
    \/ \E r \in Reqs, mode \in {"cancel", "release"} : Timeout(r, mode)
    \/ \E r \in Reqs : Resume(r)

SpecTerm == Init /\ [][NextTerm]_vars

\* the session map under connecting websockets and session creation/deletion
SpecLife == Init /\ [][NextEndpoint \/ NextLifecycle]_vars


(***************************************************************************)
(* filtered_message_history (agent.py).  A message is the tuple of its     *)
(* parts; a part is [k, id] with k its class (sys = SystemPromptPart, user *)
(* = UserPromptPart, text = TextPart, call = ToolCallPart, return =        *)
(* ToolReturnPart) and id the tool_call_id of a call/return part or the    *)
(* identity of a user prompt.  The empty tuple stands for None.            *)
(***************************************************************************)
Part(k, id) == [k |-> k, id |-> id]

HasPart(msg, kinds) == \E i \in 1..Len(msg) : msg[i].k \in kinds

\* the messages at the positions in idx, in order
Keep(msgs, idx) ==
    LET F[i \in 0..Len(msgs)] ==
            IF i = 0 THEN <<>>
            ELSE IF i \in idx THEN Append(F[i - 1], msgs[i]) ELSE F[i - 1]
    IN F[Len(msgs)]

Last(S) == CHOOSE i \in S : \A j \in S : j <= i

\* next(msg for msg in messages if type(msg.parts[0]) == SystemPromptPart, None)
SystemMessage(messages) ==
    LET S == {i \in 1..Len(messages) : messages[i][1].k = "sys"}
    IN IF S = {} THEN <<>> ELSE messages[CHOOSE i \in S : \A j \in S : i <= j]

NonSystemMessages(messages, include_tool_messages) ==
    LET ns == Keep(messages, {i \in 1..Len(messages) : messages[i][1].k # "sys"})
    IN IF include_tool_messages THEN ns
       ELSE Keep(ns, {i \in 1..Len(ns) : ~HasPart(ns[i], {"call", "return"})})

\* position (from 1; 0 when there is none) of the last message with a user part
LatestUserPromptIndex(ns) ==
    LET S == {i \in 1..Len(ns) : HasPart(ns[i], {"user"})}
    IN IF S = {} THEN 0 ELSE Last(S)

LatestUserPromptPart(ns) ==
    LET msg == ns[LatestUserPromptIndex(ns)]
    IN msg[Last({i \in 1..Len(msg) : msg[i].k = "user"})]

\* tool_call_ids[c]: position of the last message with a call part of id c, or 0
ToolCallIndex(ns, c) ==
    LET S == {i \in 1..Len(ns) : \E j \in 1..Len(ns[i]) :
                                     ns[i][j] = Part("call", c)}
    IN IF S = {} THEN 0 ELSE Last(S)

\* the loop that adds the call message of every return part of an included
\* message; the set grows while the messages are visited in order
\* the call message of every return part, of included messages or not
PullEveryCall(ns, i, inc) ==
    inc \cup {x \in 1..Len(ns) :
                 \E y \in 1..Len(ns) : \E j \in 1..Len(ns[y]) :
                     ns[y][j].k = "return" /\ x = ToolCallIndex(ns, ns[y][j].id)}

RECURSIVE PullCalls(_, _, _)
PullCalls(ns, i, inc) ==
    IF i > Len(ns) THEN inc
    ELSE PullCalls(ns, i + 1,
             IF i \in inc
             THEN inc \cup {ToolCallIndex(ns, ns[i][j].id) :
                               j \in {x \in 1..Len(ns[i]) :
                                         /\ ns[i][x].k = "return"
                                         /\ ToolCallIndex(ns, ns[i][x].id) # 0}}
             ELSE inc)

\* the last limit positions alone, without the calls of their returns
LastIndices(ns, limit) == (Len(ns) - limit + 1)..Len(ns)

\* every position, whatever the limit
AllIndices(ns, limit) == 1..Len(ns)

IncludedIndices(ns, limit) ==
    PullCalls(ns, 1, (Len(ns) - limit + 1)..Len(ns))

\* the latest user part replaces the first user part of the system message or
\* is appended to it
InjectUserPrompt(system_message, part) ==
    LET S == {i \in 1..Len(system_message) : system_message[i].k = "user"}
    IN IF S # {}
       THEN [system_message EXCEPT ![CHOOSE i \in S : \A j \in S : i <= j] = part]
       ELSE Append(system_message, part)

\* limit = 0 stands for every limit the code does not apply (None, 0, negative)
FilteredMessageHistory(messages, limit, include_tool_messages) ==
    LET system_message == SystemMessage(messages)
        ns == NonSystemMessages(messages, include_tool_messages)
        latest == LatestUserPromptIndex(ns)
        cut == limit > 0 /\ Len(ns) > limit
        included == IF cut THEN IncludedIndices(ns, limit) ELSE 1..Len(ns)
        inject == /\ cut
                  /\ latest >= 1
                  /\ latest \notin included
                  /\ system_message # <<>>
    IN [done |-> TRUE,
        pre |-> IF inject
                THEN InjectUserPrompt(system_message, LatestUserPromptPart(ns))
                ELSE system_message,
        win |-> Keep(ns, included)]

\* a turn of conversation_history as the pydantic-ai message it is: the request
\* with the user prompt, the response with the tool call, the request with the
\* tool return, the response with the text (the run of task t names its call t)
AsModelMessage(m) ==
    <<Part(CASE m.k = "user" -> "user"
             [] m.k = "call" -> "call"
             [] m.k = "return" -> "return"
             [] OTHER -> "text",
           m.t)>>

AsModelMessages(h) == [i \in 1..Len(h) |-> AsModelMessage(h[i])]

\* the message_history handle_user_message gives agent.run: the conversation
\* history of the SessionState, as it is
AgentContext(t) == AsModelMessages(hist[task[t].h])

\* the transcripts a run produces: a request holds a user prompt or the returns
\* of the calls of the response before it, a response holds a text or calls, a
\* user prompt is identified by its position, tool_call_ids are not reused, and
\* a return has its call in an earlier message
Shapes ==
    {<<Part("user", 0)>>, <<Part("text", 0)>>}
        \cup {<<Part(k, c)>> : k \in {"call", "return"}, c \in CallIds}
        \cup {<<Part(k, c), Part(k, c + 1)>> :
                 k \in {"call", "return"}, c \in CallIds \ {MaxCall}}

Cells(sh) == UNION {{<<i, j>> : j \in 1..Len(sh[i])} : i \in 1..Len(sh)}

WellFormed(sh) ==
    /\ \A p \in Cells(sh), q \in Cells(sh) :
           (p # q /\ sh[p[1]][p[2]].k \in {"call", "return"})
               => sh[p[1]][p[2]] # sh[q[1]][q[2]]
    /\ \A p \in Cells(sh) :
           sh[p[1]][p[2]].k = "return"
               => \E q \in Cells(sh) :
                      /\ q[1] < p[1]
                      /\ sh[q[1]][q[2]] = Part("call", sh[p[1]][p[2]].id)

Transcript(sh) ==
    [i \in 1..Len(sh) |->
        [j \in 1..Len(sh[i]) |->
            IF sh[i][j].k = "user" THEN Part("user", i) ELSE sh[i][j]]]

Preambles == {<<>>, <<<<Part("sys", 0)>>>>, <<<<Part("sys", 0), Part("user", 0)>>>>}

InitBuild ==
    /\ active_connections = EmptyMap
    /\ session_contexts = EmptyMap
    /\ pending_tool_requests = EmptyMap
    /\ sock = [w \in Sockets |-> IdleSock]
    /\ req = [r \in Reqs |-> IdleReq]
    /\ sessions = EmptyMap
    /\ db = [s \in SessionIds |-> "fresh"]
    /\ blob = [s \in SessionIds |-> NoFile]
    /\ hist = [h \in Handles |-> <<>>]
    /\ index = [s \in SessionIds |-> <<>>]
    /\ task = [t \in Tasks |-> IdleTask]
    /\ dl = [s \in SessionIds |-> "idle"]
    /\ \E n \in 0..MaxLen : \E sh \in [1..n -> Shapes] :
          /\ WellFormed(sh)
          /\ \E p \in Preambles, limit \in 0..MaxLimit, tools \in BOOLEAN :
                fmh_in = [messages |-> p \o Transcript(sh), limit |-> limit,
                          tools |-> tools]
    /\ fmh_out = NoResult
    /\ emitted = NoEmit

Build ==
    /\ ~fmh_out.done
    /\ fmh_out' = FilteredMessageHistory(fmh_in.messages, fmh_in.limit, fmh_in.tools)
    /\ UNCHANGED <<srvVars, fmh_in>>
    /\ emitted' = NoEmit

SpecBuild == InitBuild /\ [][Build]_vars

\* both sessions were created with POST /api/sessions and are in the session map
InitCorr ==
    /\ active_connections = EmptyMap
    /\ session_contexts = EmptyMap
    /\ pending_tool_requests = EmptyMap
    /\ sock = [w \in Sockets |-> IdleSock]
    /\ req = [r \in Reqs |-> IdleReq]
    /\ sessions = [s \in SessionIds |-> [w |-> 0, s |-> s]]
    /\ db = [s \in SessionIds |-> "active"]
    /\ blob = [s \in SessionIds |-> [exists |-> TRUE, data |-> <<>>]]
    /\ hist = [h \in Handles |-> <<>>]
    /\ index = [s \in SessionIds |-> <<>>]
    /\ task = [t \in Tasks |-> IdleTask]
    /\ dl = [s \in SessionIds |-> "idle"]
    /\ fmh_in = NoCall
    /\ fmh_out = NoResult
    /\ emitted = NoEmit

NextCorr ==
    \/ \E w \in Sockets, s \in SessionIds, t \in ConnTypes, u \in Uids :
          Handshake(w, s, t, u)
    \/ \E w \in Sockets : WsClose(w)
    \/ \E w \in Sockets : Unwind(w)
    \/ \E r \in Reqs, s \in SessionIds : RequestStart(r, s)
    \/ \E w \in Sockets, r \in Reqs, ok \in BOOLEAN, v \in Data \cup Errors :
          RecvToolResponse(w, r, ok, v)
    \/ \E r \in Reqs, mode \in {"cancel", "release"} : Timeout(r, mode)
    \/ \E r \in Reqs : Resume(r)

\* the tool-request correlator over resident sessions, with two payloads, under
\* the disconnects the websocket endpoint makes
SpecCorr == InitCorr /\ [][NextCorr]_vars

\* user messages whose handling may fail, on a server that may die and restart
NextDurable ==
    \/ NextAppend
    \/ \E t \in Tasks, torn \in BOOLEAN : AppendFail(t, torn)
    \/ \E torn \in SUBSET SessionIds : Crash(torn)

SpecDurable == InitConn /\ [][NextEndpoint \/ NextDurable]_vars

\* DELETE /api/sessions/{session_id} for a session that has a client connected
TerminateConnected(s) ==
    /\ s \in DOMAIN active_connections
    /\ TerminateEvict(s)

\* user messages of connected clients of resident sessions, which get terminated
\* while a client is connected
NextEvict ==
    \/ NextEndpoint
    \/ NextAppend
    \/ \E s \in SessionIds : TerminateConnected(s)
    \/ \E s \in SessionIds : TerminateFlag(s)

SpecEvict == InitCorr /\ [][NextEvict]_vars

\* agent runs, up to the agent's answer, and tool requests side by side over
\* resident sessions
\* a tool of the agent run of task t calls send_tool_request for its session
ToolCall(r, t) ==
    /\ task[t].pc = "running"
    /\ RequestStart(r, task[t].sid)

\* agent.run of task t ends once the tools it called have returned; its new
\* messages hold a tool call and return when a tool of the session was called
AgentFinish(t, ok) ==
    /\ \A r \in Reqs : req[r].pc = "waiting" => req[r].sid # task[t].sid
    /\ AgentReturn(t, ok, \E r \in Reqs : req[r].pc = "done" /\ req[r].sid = task[t].sid)

NextAgentTool ==
    \/ \E w \in Sockets, s \in SessionIds, t \in ConnTypes, u \in Uids :
          Handshake(w, s, t, u)
    \/ \E w \in Sockets : WsClose(w)
    \/ \E w \in Sockets : Unwind(w)
    \/ \E r \in Reqs, t \in Tasks : ToolCall(r, t)
    \/ \E w \in Sockets, r \in Reqs, ok \in BOOLEAN, v \in {"X"} \cup Errors :
          RecvToolResponse(w, r, ok, v)
    \/ \E r \in Reqs, mode \in {"cancel", "release"} : Timeout(r, mode)
    \/ \E r \in Reqs : Resume(r)
    \/ \E w \in Sockets, t \in Tasks : RecvUserMessage(w, t)
    \/ \E t \in Tasks, ok \in BOOLEAN : AgentFinish(t, ok)

SpecAgentTool == InitCorr /\ [][NextAgentTool]_vars

SendTargets == {"pwa", "mcp", "all"}

NextSend ==
    \/ \E s \in SessionIds, target \in SendTargets : SendMessageCall(s, target)
    \/ \E s \in SessionIds : DisconnectAll(s)

\* the registry and the pending map under connecting and leaving websockets,
\* send_message calls and tool requests being registered
SpecReg ==
    InitConn /\ [][NextEndpoint \/ NextSend
                      \/ \E r \in Reqs, s \in SessionIds : RequestStart(r, s)]_vars

\* the registry under connecting and leaving websockets and send_message calls
SpecSend == InitConn /\ [][NextEndpoint \/ NextSend]_vars

Next == NextConn \/ NextLifecycle \/ NextDurable \/ NextSend \/ Build

Spec == Init /\ [][Next]_vars

(***************************************************************************)
(* Properties of the correlator                                            *)
(***************************************************************************)
Responses == {<<TRUE, d>> : d \in Data} \cup {<<FALSE, e>> : e \in Errors}

\* request r is registered and its caller is suspended on a Future nobody resolved
Outstanding(r) ==
    /\ req[r].pc = "waiting"
    /\ req[r].fut = "pending"
    /\ LooksUp(pending_tool_requests, req[r].sid, r)

\* C1 (as claimed): a complete for a call_id that an earlier complete already
\* resolved is a no-op whenever it arrives, before or after the caller resumed:
\* it raises nothing (the connection that delivered it stays in its message
\* loop, registered) and changes neither the registry, the pending map nor any
\* request, so the caller's outcome stays the one the first call determined.
C1_SecondCompleteIsNoOp ==
    [][\A w \in Sockets, r \in Reqs, m \in Responses :
          (RecvToolResponse(w, r, m[1], m[2]) /\ req[r].fut \in {"result", "exception"})
              => UNCHANGED <<mgrVars, sock, req>>]_vars

\* C2 (as claimed): the step that removes the last connection of a session
\* rejects every outstanding request of that session with connection-lost.
C2_LastDisconnectRejectsPending ==
    [][\A s \in SessionIds :
          (s \in DOMAIN active_connections /\ s \notin DOMAIN active_connections')
              => \A r \in Reqs :
                    (Outstanding(r) /\ req[r].sid = s)
                        => /\ req'[r].fut = "exception"
                           /\ req'[r].val = "connection-lost"]_vars

\* C3 (as claimed): a request that ended by timeout has no pending entry, and a
\* response for a call_id whose deadline has fired is dropped: it raises nothing
\* and changes neither the registry, the pending map nor any request.
C3_TimeoutThenStaleDropped ==
    [][/\ \A r \in Reqs :
             (req'[r].pc = "done" /\ req'[r].out = "timeout")
                 => ~LooksUp(pending_tool_requests', req'[r].sid, r)
       /\ \A w \in Sockets, r \in Reqs, m \in Responses :
             (RecvToolResponse(w, r, m[1], m[2]) /\ req[r].tmo # "no")
                 => UNCHANGED <<mgrVars, sock, req>>]_vars

\* C4 (as claimed): a response for X after X's deadline leaves every other
\* outstanding request Y registered and unresolved, and every connection
\* registered (also when the exception that response raised has run its course
\* through the except clause of the endpoint).
LateResponseStep(w, x) ==
    \/ \E m \in Responses : RecvToolResponse(w, x, m[1], m[2]) /\ req[x].tmo # "no"
    \/ Unwind(w) /\ sock[w].err = "InvalidStateError" /\ req[x].tmo # "no"

C4_TimeoutIsolation ==
    [][\A w \in Sockets, x \in Reqs, y \in Reqs :
          (LateResponseStep(w, x) /\ y # x /\ Outstanding(y))
              => /\ LooksUp(pending_tool_requests', req[y].sid, y)
                 /\ req'[y] = req[y]
                 /\ active_connections' = active_connections]_vars

(***************************************************************************)
(* Properties of the session manager                                       *)
(***************************************************************************)
\* C5 (as claimed): when terminate_session returns, no caller of a tool request
\* of that session is still suspended.
C5_TerminateCancelsPending ==
    [][\A s \in SessionIds :
          TerminateFlag(s)
              => \A r \in Reqs : req[r].sid = s => req'[r].pc # "waiting"]_vars

\* C6 (as claimed): every websocket task that went through get_session/restore
\* holds the SessionState the map holds for its session id, so one live handle
\* is in use per id (no session is evicted in this specification).
C6_OneLiveHandlePerSession ==
    \A w \in Sockets :
        (sock[w].pc \in {"loop", "unwinding"} /\ sock[w].sid \in DOMAIN sessions)
            => sock[w].h = sessions[sock[w].sid]

\* C7 (as claimed): no two tasks are inside add_messages for one session id at
\* the same time.
C7_AppendsSerialized ==
    \A t1 \in Tasks, t2 \in Tasks :
        (t1 # t2 /\ InAppend(t1) /\ InAppend(t2)) => task[t1].sid # task[t2].sid

(***************************************************************************)
(* Properties of the message-history filter                                *)
(***************************************************************************)
Body == NonSystemMessages(fmh_in.messages, fmh_in.tools)

InWindow(part) ==
    \E i \in 1..Len(fmh_out.win) : \E j \in 1..Len(fmh_out.win[i]) :
        fmh_out.win[i][j] = part

\* C8: in the list filtered_message_history returns for a transcript whose
\* returns all have their call earlier, every message with a ToolReturnPart is
\* preceded by the message with the ToolCallPart of the same tool_call_id.
C8_PairingInvariant ==
    fmh_out.done =>
        \A i \in 1..Len(fmh_out.win) : \A j \in 1..Len(fmh_out.win[i]) :
            fmh_out.win[i][j].k = "return"
                => \E a \in 1..(i - 1) :
                       HasPart(fmh_out.win[a], {"call"})
                       /\ \E b \in 1..Len(fmh_out.win[a]) :
                              fmh_out.win[a][b] = Part("call", fmh_out.win[i][j].id)

\* C8, Scenario A: [Sys, U1, A1(call c1), R1(return c1), U2] with limit 2 gives
\* the window [A1, R1, U2] and leaves the system message as it was.
C8_ScenarioA ==
    /\ fmh_in = [messages |-> << <<Part("sys", 0)>>, <<Part("user", 1)>>,
                                 <<Part("call", 1)>>, <<Part("return", 1)>>,
                                 <<Part("user", 4)>> >>,
                 limit |-> 2, tools |-> TRUE]
    /\ fmh_out = [done |-> TRUE, pre |-> <<Part("sys", 0)>>,
                  win |-> << <<Part("call", 1)>>, <<Part("return", 1)>>,
                             <<Part("user", 4)>> >>]

\* C9 (as claimed): when the last user prompt of the transcript is not in the
\* returned window, the returned system message holds it, as its only user
\* prompt; when it is in the window, the system message is returned as given.
C9_LatestUserPreserved ==
    (fmh_out.done /\ LatestUserPromptIndex(Body) # 0) =>
        IF InWindow(LatestUserPromptPart(Body))
        THEN fmh_out.pre = SystemMessage(fmh_in.messages)
        ELSE /\ \E i \in 1..Len(fmh_out.pre) :
                    fmh_out.pre[i] = LatestUserPromptPart(Body)
             /\ \A i \in 1..Len(fmh_out.pre) :
                    fmh_out.pre[i].k = "user"
                        => fmh_out.pre[i] = LatestUserPromptPart(Body)

\* C10 (as claimed): for a transcript without a system message whose last user
\* prompt is not in the returned window, the result has a system message made
\* for the occasion that holds that prompt; an empty transcript gives an empty
\* window.
C10_PreambleSynthesized ==
    fmh_out.done =>
        /\ (/\ SystemMessage(fmh_in.messages) = <<>>
            /\ LatestUserPromptIndex(Body) # 0
            /\ ~InWindow(LatestUserPromptPart(Body)))
               => fmh_out.pre = <<LatestUserPromptPart(Body)>>
        /\ Body = <<>> => fmh_out.win = <<>>

\* the transcript of the call: the messages that are not the system message
T == NonSystemMessages(fmh_in.messages, TRUE)

LastN == SubSeq(T, Len(T) - fmh_in.limit + 1, Len(T))

\* the return parts of the last limit messages whose call is in none of them
SplitReturns ==
    {p \in Cells(LastN) :
        /\ LastN[p[1]][p[2]].k = "return"
        /\ ~\E q \in Cells(LastN) :
               LastN[q[1]][q[2]] = Part("call", LastN[p[1]][p[2]].id)}

RECURSIVE IsSubsequence(_, _)
IsSubsequence(w, s) ==
    IF w = <<>> THEN TRUE
    ELSE IF s = <<>> THEN FALSE
    ELSE IF Head(w) = Head(s) THEN IsSubsequence(Tail(w), Tail(s))
    ELSE IsSubsequence(w, Tail(s))

\* C11: for a limit N >= 1 and a transcript of at least N messages in which no
\* return of the last N messages has its call outside them, the returned window
\* is the last N messages of the transcript, in their order.
C11_Recency ==
    (/\ fmh_out.done
     /\ fmh_in.tools
     /\ fmh_in.limit >= 1
     /\ Len(T) >= fmh_in.limit
     /\ SplitReturns = {})
        => fmh_out.win = LastN

\* C11 witness: a transcript longer than the limit with a call and its return
\* both among the last N messages has been cut to exactly those.
C11_CutWithPairInside ==
    /\ fmh_out.done
    /\ fmh_in.tools
    /\ fmh_in.limit >= 1
    /\ Len(T) > fmh_in.limit
    /\ SplitReturns = {}
    /\ \E p \in Cells(LastN) : LastN[p[1]][p[2]].k = "return"
    /\ fmh_out.win = LastN

C13_UnknownIdIsNoOp ==
    [][\A w \in Sockets, r \in Reqs, m \in Responses :
          (/\ sock[w].pc = "loop"
           /\ ~(/\ sock[w].sid \in DOMAIN pending_tool_requests
                /\ r \in pending_tool_requests[sock[w].sid])
           /\ RecvToolResponse(w, r, m[1], m[2]))
              => UNCHANGED <<mgrVars, sock, req>>]_vars

\* C13 witness: a response for an unknown request_id was just logged for one
\* session while a request of another session is outstanding.
C13_UnknownLogged ==
    /\ emitted.ev = "unknown_request"
    /\ \E r \in Reqs : Outstanding(r) /\ req[r].sid # emitted.sid

\* C14: a tool_response for a request whose Future is pending sets the Future to
\* the response's data (success) or to an error with the response's error string
\* (failure), and a caller that runs again before its timer fired returns exactly
\* that data, or raises exactly that error.
C14_MatchingCompleteDelivers ==
    [][\A r \in Reqs :
          /\ \A w \in Sockets, m \in Responses :
                (/\ Outstanding(r)
                 /\ sock[w].sid = req[r].sid
                 /\ RecvToolResponse(w, r, m[1], m[2]))
                    => /\ req'[r].fut = IF m[1] THEN "result" ELSE "exception"
                       /\ req'[r].val = m[2]
          /\ (req[r].pc = "waiting" /\ req'[r].pc = "done" /\ req[r].tmo = "no")
                => /\ req[r].fut \in {"result", "exception"}
                   /\ req'[r].out = IF req[r].fut = "result" THEN "value"
                                    ELSE "tool_failed"
                   /\ req'[r].outval = req[r].val]_vars

\* C14 witness: one caller has returned the data Y and another has raised the
\* error E.
C14_ValueAndFailureDelivered ==
    \E r1 \in Reqs, r2 \in Reqs :
        /\ req[r1].pc = "done" /\ req[r1].out = "value" /\ req[r1].outval = "Y"
        /\ req[r2].pc = "done" /\ req[r2].out = "tool_failed" /\ req[r2].outval = "E"

\* C15: a step of request x (its response while its Future is pending, its
\* timer, the resumption of its caller) leaves every other request y as it is:
\* the Future, the timer and the outcome of y are unchanged and y's pending entry
\* stays; so requests complete in any order and a response reaches only the
\* caller of its own request_id.
C15_RequestsIndependent ==
    [][\A x \in Reqs, y \in Reqs :
          (/\ x # y
           /\ \/ \E w \in Sockets, m \in Responses :
                    Outstanding(x) /\ RecvToolResponse(w, x, m[1], m[2])
              \/ \E mode \in {"cancel", "release"} : Timeout(x, mode)
              \/ Resume(x))
              => /\ req'[y] = req[y]
                 /\ LooksUp(pending_tool_requests, req[y].sid, y)
                       => LooksUp(pending_tool_requests', req[y].sid, y)]_vars

\* C15 witness: of two requests of one session the later one has returned its
\* data while the earlier one is still outstanding.
C15_CompletedOutOfOrder ==
    /\ Outstanding(1)
    /\ req[2].pc = "done" /\ req[2].out = "value" /\ req[2].outval = "Y"
    /\ req[2].sid = req[1].sid

\* C16: send_tool_request for a session without a pwa connection registers its
\* entry, sends to nobody and suspends; a suspended request whose Future nobody
\* set stays suspended until its timer fires and then ends with a timeout.
C16_ZeroTargetsTimesOut ==
    [][\A r \in Reqs :
          /\ \A s \in SessionIds :
                (RequestStart(r, s) /\ Targets(active_connections, s, "pwa") = {})
                    => /\ req'[r].pc = "waiting" /\ req'[r].fut = "pending"
                       /\ LooksUp(pending_tool_requests', s, r)
                       /\ emitted'.ev = "tool_request" /\ emitted'.to = {}
          /\ (Outstanding(r) /\ req[r].tmo = "no") => req'[r].pc = "waiting"
          /\ (/\ req[r].pc = "waiting" /\ req'[r].pc = "done"
              /\ req[r].fut \notin {"result", "exception"})
                => req'[r].out = "timeout" /\ req[r].tmo # "no"]_vars

\* C16 witness: no websocket has connected at all and a request has ended with a
\* timeout.
C16_TimedOutWithoutConnections ==
    /\ \A w \in Sockets : sock[w].pc = "idle"
    /\ \E r \in Reqs : req[r].pc = "done" /\ req[r].out = "timeout"

\* C17: once send_tool_request has returned or raised, the pending map of no
\* session holds its request_id, and the outcome stays what it is.
C17_DoneRequestsRemoved ==
    [][\A r \in Reqs :
          /\ req'[r].pc = "done"
                => \A s \in DOMAIN pending_tool_requests' :
                       r \notin pending_tool_requests'[s]
          /\ req[r].pc = "done" => req'[r] = req[r]]_vars

\* C17 witness: a request has ended with a timeout after the disconnect of the
\* last connection of its session had dropped the session's pending map.
C17_EndedAfterDisconnect ==
    \E r \in Reqs :
        /\ req[r].pc = "done" /\ req[r].out = "timeout"
        /\ req[r].sid \notin DOMAIN pending_tool_requests
        /\ \E w \in Sockets : sock[w].pc = "closed"

(***************************************************************************)
(* Properties of the registry                                              *)
(***************************************************************************)
\* the websockets registered for the session of the last send_message call under
\* a connection id of the type the call named
Matched ==
    IF emitted.sid \notin DOMAIN active_connections THEN {}
    ELSE {active_connections[emitted.sid][c] :
             c \in {x \in DOMAIN active_connections[emitted.sid] :
                       emitted.target = "all" \/ x[1] = emitted.target}}

IsSend == emitted.ev \notin {"none", "unknown_request"}

\* C18: send_message gives the payload to every websocket registered for the
\* session under the target type except those whose send_json raised, and to no
\* websocket of another type or another session.
C18_FanOutToMatched ==
    IsSend =>
        /\ emitted.to \cup emitted.failed = Matched
        /\ emitted.to \cap emitted.failed = {}
        /\ \A w \in emitted.to :
               /\ sock[w].sid = emitted.sid
               /\ emitted.target = "all" \/ sock[w].ctype = emitted.target

\* C18 witness: of two pwa connections of a session one send raised and the
\* other connection was given the payload.
C18_OneFailedOtherSent ==
    /\ emitted.ev = "event" /\ emitted.target = "pwa"
    /\ emitted.failed # {} /\ emitted.to # {}

C20_ConnectNeverReplaces ==
    [][\A s \in DOMAIN active_connections : \A c \in DOMAIN active_connections[s] :
          (s \in DOMAIN active_connections' /\ c \in DOMAIN active_connections'[s])
              => active_connections'[s][c] = active_connections[s][c]]_vars

(***************************************************************************)
(* Properties of the connection registry                                   *)
(***************************************************************************)
\* C21: a SessionContext exists for exactly the session ids that have a
\* registered connection, the registry holds no empty connection set, and a
\* connect for a session that has a context leaves that context as it is.
C21_ContextIffConnected ==
    /\ [](/\ DOMAIN session_contexts = DOMAIN active_connections
          /\ \A s \in DOMAIN active_connections : DOMAIN active_connections[s] # {}
          /\ \A s \in DOMAIN session_contexts : session_contexts[s].session_id = s)
    /\ [][\A w \in Sockets, s \in SessionIds, t \in ConnTypes, u \in Uids :
             (Handshake(w, s, t, u) /\ s \in DOMAIN session_contexts)
                 => session_contexts' = session_contexts]_vars

\* C21 witness: a session had two connections of one type (the second one drew
\* the second uid because the first was held), the first is gone, and the
\* context is still there, the only one.
C21_ContextOutlivesOneOfTwo ==
    /\ sock[1].pc = "closed"
    /\ sock[2].pc = "loop" /\ sock[2].uid = 2
    /\ DOMAIN session_contexts = {sock[2].sid}
    /\ DOMAIN active_connections = {sock[2].sid}

\* C22: disconnect(session_id, connection_id) with another connection of the
\* session left removes that one connection id and changes no other connection,
\* no context and no pending request; disconnect(session_id) removes every
\* connection of the session and none of another; either call for a session
\* without connections changes nothing.
ClosingStep(w) == (WsClose(w) /\ sock[w].ctype # "pwa") \/ Unwind(w)

C22_DisconnectFrame ==
    [][/\ \A w \in Sockets :
             LET s == sock[w].sid
                 cid == ConnId(sock[w].ctype, sock[w].uid)
             IN  ClosingStep(w) =>
                    IF s \notin DOMAIN active_connections
                    THEN UNCHANGED mgrVars
                    ELSE (DOMAIN active_connections[s] \ {cid} # {})
                            => /\ active_connections' =
                                      [active_connections EXCEPT ![s] = Pop(@, cid)]
                               /\ UNCHANGED <<session_contexts, pending_tool_requests>>
       /\ \A s \in SessionIds :
             DisconnectAll(s) =>
                 IF s \notin DOMAIN active_connections
                 THEN UNCHANGED mgrVars
                 ELSE active_connections' = Pop(active_connections, s)]_vars

\* C22 witness: of two connections of a session with a pending tool request one
\* has disconnected in the last step; the other, the context and the request are
\* still there.
C22_OneOfTwoRemoved ==
    /\ sock[1].pc = "closed"
    /\ sock[2].pc = "loop" /\ sock[2].uid = 2
    /\ sock[2].sid \in DOMAIN active_connections
    /\ sock[2].sid \in DOMAIN session_contexts
    /\ LooksUp(pending_tool_requests, sock[2].sid, 1)
    /\ emitted.ev = "none"

(***************************************************************************)
(* Properties of the durable state                                         *)
(***************************************************************************)
\* the appends of session s that began have completed: no task of s is inside
\* add_messages or left it with an exception
AppendsCompleted(s) ==
    \A t \in Tasks :
        task[t].sid = s =>
            \/ task[t].pc \in {"idle", "running", "responding", "saving"}
            \/ task[t].pc = "done" /\ task[t].res = "ok"

\* C23 (as claimed): when the process dies with every append of a resident
\* session completed, the history file holds the transcript the session had, and
\* restore_session hands out a SessionState with the transcript of the file.
C23_RebuildableFromDurable ==
    [][/\ (\E torn \in SUBSET SessionIds : Crash(torn))
             => \A s \in DOMAIN sessions :
                   AppendsCompleted(s) => LoadHistory(s)' = hist[sessions[s]]
       /\ \A w \in Sockets :
             (Restore(w) /\ RowExists(sock[w].sid))
                 => hist'[RestoredHandle(w)] = LoadHistory(sock[w].sid)]_vars

\* C24: no restore_session changes the history file, the messages table or the
\* session row of any session.
C24_RestoreLeavesDurable ==
    [][\A w \in Sockets :
          Restore(w) => blob' = blob /\ index' = index /\ db' = db]_vars

\* C24 witness: after a restart the second websocket has just restored a session
\* whose history file held turns: the first websocket is gone, no task has run
\* since, and the restored transcript is the non-empty content of the file.
C24_RestoredOverTurns ==
    /\ sock[1].pc = "closed"
    /\ sock[2].pc = "loop" /\ sock[2].h = RestoredHandle(2)
    /\ emitted.ev = "handshake_ack"
    /\ \A t \in Tasks : task[t].pc \in {"idle", "done"}
    /\ hist[RestoredHandle(2)] # <<>>
    /\ blob[sock[2].sid].data = hist[RestoredHandle(2)]

\* C25: restore_session for an id without a session row raises (the endpoint
\* task ends, no handshake_ack is sent) and changes neither the session map nor
\* any SessionState.
C25_RestoreNotFound ==
    [][\A w \in Sockets :
          (Restore(w) /\ db[sock[w].sid] \in {"fresh", "deleted"})
              => /\ sessions' = sessions
                 /\ hist' = hist
                 /\ sock'[w].pc = "closed"
                 /\ emitted' = NoEmit]_vars

\* C25 witness: no session was ever created and the first websocket is gone, so
\* its handshake named an id without a row and its restore failed.
C25_RestoreFailed ==
    /\ sock[1].pc = "closed"
    /\ \A s \in SessionIds : db[s] = "fresh"
    /\ sessions = EmptyMap

\* C26 (as claimed): when add_messages returns for the SessionState the session
\* map holds, the history file holds exactly that SessionState's transcript.
C26_BlobEqualsTranscript ==
    [][\A t \in Tasks :
          (/\ AppendFinish(t)
           /\ task[t].sid \in DOMAIN sessions
           /\ sessions[task[t].sid] = task[t].h)
              => blob'[task[t].sid].data = hist'[task[t].h]]_vars

\* the turns the rows of the messages table of session s project, in row order
RowTurns(s) ==
    [i \in 1..Len(index[s]) |-> [k |-> index[s][i].k, t |-> index[s][i].t]]

\* C27 (as claimed): in every state, whatever crashed, the rows of the messages
\* table of a session project turns that the history file holds, in the order
\* in which the file holds them.
C27_IndexNeverAheadOfBlob ==
    \A s \in SessionIds : IsSubsequence(RowTurns(s), LoadHistory(s))

\* C28 (as claimed): the rows of a session carry the message_index values
\* 0, 1, 2, ... in the order in which they were added, none of them twice.
C28_IndexesIncrease ==
    \A s \in SessionIds : \A i \in 1..Len(index[s]) : index[s][i].idx = i - 1

\* C29 (as claimed): when terminate_session returns for a session that has a
\* row, the row's status is terminated and the session map holds no SessionState
\* for the id.
C29_TerminatedAndEvicted ==
    [][\A s \in SessionIds :
          (TerminateFlag(s) /\ RowExists(s))
              => /\ db'[s] = "terminated"
                 /\ s \notin DOMAIN sessions']_vars

\* C30: the step in which the handling of a user message fails (agent.run or
\* add_messages raises) sends an agent_response with the error text to exactly
\* the pwa connections of the session, and closes or deregisters no connection.
C30_FailureAnswered ==
    [][\A t \in Tasks :
          (task[t].pc # "done" /\ task'[t].pc = "done" /\ task'[t].res = "error")
              => /\ emitted'.ev = "agent_error"
                 /\ emitted'.sid = task[t].sid
                 /\ emitted'.to \cup emitted'.failed =
                        {active_connections[task[t].sid][c] :
                            c \in Targets(active_connections, task[t].sid, "pwa")}
                 /\ sock' = sock
                 /\ UNCHANGED mgrVars]_vars

\* C30 witness: add_messages has raised after the history file was written, the
\* error text went to the pwa connection that sent the user message, and that
\* connection is still in its message loop.
C30_AppendFailedAnswered ==
    /\ emitted.ev = "agent_error" /\ emitted.to # {}
    /\ \E t \in Tasks : task[t].pc = "done" /\ task[t].res = "error"
    /\ \E s \in SessionIds : blob[s].data # <<>>
    /\ \A w \in emitted.to : sock[w].pc = "loop" /\ sock[w].ctype = "pwa"

(***************************************************************************)
(* Properties across sessions and of the message flow                      *)
(***************************************************************************)
\* what the manager holds for session s
ManagerView(s) ==
    <<IF s \in DOMAIN active_connections THEN {active_connections[s]} ELSE {},
      IF s \in DOMAIN session_contexts THEN {session_contexts[s]} ELSE {},
      IF s \in DOMAIN pending_tool_requests THEN {pending_tool_requests[s]} ELSE {}>>

\* a step of an operation on session a: connect, disconnect, request (with its
\* timer and its caller's resumption) or complete
StepOn(a) ==
    \/ \E w \in Sockets, t \in ConnTypes, u \in Uids : Handshake(w, a, t, u)
    \/ \E w \in Sockets : sock[w].sid = a /\ (WsClose(w) \/ Unwind(w))
    \/ \E r \in Reqs : RequestStart(r, a)
    \/ \E w \in Sockets, r \in Reqs, m \in Responses :
          sock[w].sid = a /\ RecvToolResponse(w, r, m[1], m[2])
    \/ \E r \in Reqs, mode \in {"cancel", "release"} : req[r].sid = a /\ Timeout(r, mode)
    \/ \E r \in Reqs : req[r].sid = a /\ Resume(r)

\* C31: a step of an operation on session a changes, for every other session b,
\* neither its connections, its context nor its pending requests, and changes
\* no tool request and no websocket task of b; so a tool_response received on a
\* connection of a resolves no request of b.
C31_SessionsIsolated ==
    [][\A a \in SessionIds, b \in SessionIds :
          (StepOn(a) /\ b # a)
              => /\ ManagerView(b)' = ManagerView(b)
                 /\ \A r \in Reqs :
                        (req[r].pc # "idle" /\ req[r].sid = b) => req'[r] = req[r]
                 /\ \A w \in Sockets :
                        (sock[w].pc \notin {"idle", "closed"} /\ sock[w].sid = b)
                            => sock'[w] = sock[w]]_vars

\* C31 witness: both requests are outstanding in one session and a connection
\* of the other session has just delivered a tool_response, which named one of
\* them or nothing pending and was logged as unknown.
C31_ForeignResponseIgnored ==
    /\ emitted.ev = "unknown_request"
    /\ \A r \in Reqs : Outstanding(r) /\ req[r].sid # emitted.sid

IsPrefix(a, b) == Len(a) <= Len(b) /\ SubSeq(b, 1, Len(a)) = a

\* C32 (as claimed): over every step in which a session stays in the session
\* map, the transcript of its SessionState before the step is a prefix of the
\* one after it, and add_messages puts its turns after the transcript, together
\* and in their order.
C32_TranscriptGrowsByAppend ==
    [][/\ \A s \in SessionIds :
             (s \in DOMAIN sessions /\ s \in DOMAIN sessions')
                 => IsPrefix(hist[sessions[s]], hist'[sessions'[s]])
       /\ \A t \in Tasks :
             AppendStart(t) => hist'[task[t].h] = hist[task[t].h] \o task[t].msgs]_vars

\* C33: in the state in which a tool_request message has just gone out, the
\* request_id it carries is registered in the pending map of the session it was
\* sent for, with a Future nobody has resolved and a suspended caller; so no
\* response to it can be received before the entry exists.
C33_RegisteredWhenSent ==
    emitted.ev = "tool_request"
        => /\ emitted.id \in Reqs
           /\ LooksUp(pending_tool_requests, emitted.sid, emitted.id)
           /\ req[emitted.id].sid = emitted.sid
           /\ req[emitted.id].pc = "waiting"
           /\ req[emitted.id].fut = "pending"

\* C33 witness: the tool_request of the second request has just been delivered
\* to a pwa connection while the first request is still outstanding.
C33_SecondRequestSent ==
    /\ emitted.ev = "tool_request" /\ emitted.id = 2 /\ emitted.to # {}
    /\ Outstanding(1) /\ Outstanding(2)

\* C34 (as claimed): the message_history that the handling of a user message
\* has for agent.run when it starts is the window filtered_message_history makes
\* of the session's transcript for a limit of at most MaxLimit messages.
C34_AgentGetsWindow ==
    [][\A w \in Sockets, t \in Tasks :
          RecvUserMessage(w, t)
              => \E limit \in 1..MaxLimit :
                     AgentContext(t)' =
                         FilteredMessageHistory(AsModelMessages(hist[sock[w].h]),
                                                limit, TRUE).win]_vars

\* C35 (as claimed): once terminate_session has returned for a session (its row
\* says terminated, or was deleted after that), no step changes the session's
\* history file or its rows in the messages table, and no step appends to the
\* transcript of a SessionState of that session.
C35_NoAppendAfterTerminate ==
    [][\A s \in SessionIds :
          db[s] \in {"terminated", "deleted"}
              => /\ blob'[s] = blob[s]
                 /\ index'[s] = index[s]
                 /\ \A t \in Tasks :
                        task[t].sid = s => ~AppendStart(t)]_vars

\* C36 (as claimed): while a user message of a session is being processed and a
\* request of that session waits for its answer, a tool_response for it that
\* arrives on an executor connection of the session in its message loop is
\* received and completes the request's Future.
InMessageLoop(w) == sock[w].pc \notin {"idle", "restoring", "unwinding", "closed"}

C36_ResponseReceivedWhileRunning ==
    \A w \in Sockets, r \in Reqs :
        (/\ InMessageLoop(w) /\ sock[w].ctype = "pwa"
         /\ req[r].pc = "waiting" /\ req[r].fut = "pending"
         /\ req[r].sid = sock[w].sid
         /\ \E t \in Tasks : task[t].pc = "running" /\ task[t].sid = sock[w].sid)
            => \A m \in Responses :
                  ENABLED (/\ RecvToolResponse(w, r, m[1], m[2])
                           /\ req'[r].fut = (IF m[1] THEN "result" ELSE "exception")
                           /\ req'[r].val = m[2])

\* C37: every websocket that stands in the connection map belongs to an endpoint
\* that is still between its registration and the end of its handler; an
\* endpoint whose handshake failed after manager.connect (restore_session raised
\* for want of a row) has ended, so its websocket is registered no more
Registered(w) ==
    \E s \in DOMAIN active_connections :
        \E cid \in DOMAIN active_connections[s] : active_connections[s][cid] = w

C37_RegisteredEndpointsRun ==
    \A w \in Sockets : Registered(w) => sock[w].pc \in {"restoring", "loop", "unwinding"}

\* the first websocket asked for a session without a row and is gone from the
\* map, the second one has just been registered for the same session
C37_FailedHandshakeRemoved ==
    /\ sock[1].pc = "closed" /\ ~Registered(1)
    /\ db["s1"] = "fresh"
    /\ sock[2].pc = "restoring" /\ sock[2].sid = "s1" /\ Registered(2)

\* C38 (as claimed): the handshake_ack of a websocket that enters its message
\* loop, which carries that websocket's connection id, reaches no websocket
\* registered under another connection id.
C38_AckOnlyToNewConnection ==
    [][\A w \in Sockets :
          (/\ sock[w].pc \in {"idle", "restoring"} /\ sock'[w].pc = "loop"
           /\ emitted'.ev = "handshake_ack")
              => \A x \in emitted'.to \cup emitted'.failed :
                     ConnId(sock'[x].ctype, sock'[x].uid)
                         = ConnId(sock'[w].ctype, sock'[w].uid)]_vars

\* C39 (as claimed): when handle_user_message has ended for a user message, the
\* typing indicator it switched on has been switched off again, also when the
\* agent run failed.
C39_TypingSwitchedOff ==
    \A t \in Tasks : task[t].pc = "done" => ~task[t].typing

====
